---- MODULE Spec2Model ----
(***************************************************************************)
(* Model of the expense tracker in src/app.py: the users and expense       *)
(* tables, the per-browser login session, and one action per route         *)
(* handler.  Every handler runs as one atomic step (one request at a       *)
(* time); the specification SpecConc splits register at the point between  *)
(* its existence query and its commit, to interleave two registrations.    *)
(***************************************************************************)
EXTENDS Integers, Sequences, FiniteSets, TLC

\* ---------------------------------------------------------------- bounds
\* Largest primary key the expense table hands out in the model.
MaxId == 2
\* Largest number of rows of the expense table in an initial state of SpecAgg.
MaxAggEntries == 3
\* Bits of significand of the model's binary floating point (the code's
\* doubles have 53).
MantBits == 3

\* ------------------------------------------------------- input alphabets
\* Browsers, each with its own session cookie; a handler reads no session but
\* that of the request it serves.
Clients == {"c1"}
\* Register requests that may be in flight together, in SpecConc.
Requests == {"r1", "r2"}
Usernames == {"alice", "bob"}
Passwords == {"pw1", "pw2"}
Salts == {"s1"}
Ids == 1..(MaxId + 1)

\* Submitted add/edit forms: two well-formed ones with a documented kind, one
\* with another kind, one with a malformed amount, one with a malformed date.
Forms ==
  { [title |-> "Coffee", amount |-> "1", category |-> "Food",
     expense_type |-> "expense", date |-> "2024-01-01"],
    [title |-> "Salary", amount |-> "8", category |-> "Work",
     expense_type |-> "income", date |-> "2024-01-02"],
    [title |-> "Move", amount |-> "1", category |-> "Food",
     expense_type |-> "transfer", date |-> "2024-01-02"],
    [title |-> "Coffee", amount |-> "abc", category |-> "Food",
     expense_type |-> "expense", date |-> "2024-01-01"],
    [title |-> "Coffee", amount |-> "1", category |-> "Food",
     expense_type |-> "expense", date |-> "01/02/2024"] }

\* The form of a request that submits none.
NoForm ==
  [title |-> "", amount |-> "", category |-> "", expense_type |-> "",
   date |-> ""]

AggAmounts == {1, 8, 16}
AggCategories == {"Food", "Rent"}
AggKinds == {"income", "expense"}

\* ----------------------------------------------------------------- state
VARIABLES
  users,     \* the user table: a sequence of rows, users[i].id = i
  expenses,  \* the expense table: a set of rows with distinct ids
  session,   \* session[c]: the user id kept in browser c's session, 0 if none
  pending,   \* pending[r]: the browser of register request r and the User
             \* object it has built and not yet committed, NoRow if none
  rawpw,     \* history: rawpw[i] is the raw password user i registered with
  last       \* the last request and the response it got

vars == <<users, expenses, session, pending, rawpw, last>>

Anonymous == 0
NoRow ==
  [client |-> "", username |-> "",
   password |-> [salt |-> "", digest |-> <<>>], raw |-> ""]

\* -------------------------------------------------------- password hashes
\* The digest of a salted password; one-way in the code, kept injective here.
Digest(salt, pw) == <<salt, pw>>

generate_password_hash(pw, salt) == [salt |-> salt, digest |-> Digest(salt, pw)]

check_password_hash(h, pw) == h.digest = Digest(h.salt, pw)

\* ------------------------------------------------------- form conversions
ValueError == -1

\* float(request.form['amount']): the value in whole units, or ValueError.
ParseFloat(s) ==
  CASE s = "1" -> 1
    [] s = "8" -> 8
    [] s = "16" -> 16
    [] OTHER -> ValueError

\* datetime.strptime(s, '%Y-%m-%d').date(): the day as yyyymmdd, or ValueError.
ParseDate(s) ==
  CASE s = "2024-01-01" -> 20240101
    [] s = "2024-01-02" -> 20240102
    [] OTHER -> ValueError

\* str.title() of the submitted kind, inside the add notice.
FlashAdded(t) ==
  CASE t = "expense" -> "Expense added successfully!"
    [] t = "income" -> "Income added successfully!"
    [] OTHER -> "Transfer added successfully!"

\* ------------------------------------------------- floating-point amounts
RECURSIVE Pow2(_)
Pow2(n) == IF n = 0 THEN 1 ELSE 2 * Pow2(n - 1)

RECURSIVE Exponent(_, _)
Exponent(n, e) == IF n < Pow2(MantBits + e) THEN e ELSE Exponent(n, e + 1)

\* n rounded to MantBits significant bits, ties to the even significand.
RoundNat(n) ==
  LET e == Exponent(n, 0)
      unit == Pow2(e)
      q == n \div unit
      r == n % unit
  IN  IF e = 0 THEN n
      ELSE IF 2 * r > unit \/ (2 * r = unit /\ q % 2 = 1)
           THEN (q + 1) * unit
           ELSE q * unit

Round(x) == IF x < 0 THEN 0 - RoundNat(0 - x) ELSE RoundNat(x)

FloatAdd(a, b) == Round(a + b)
FloatSub(a, b) == Round(a - b)

\* Python's sum(): left to right from 0.
RECURSIVE FloatSumFrom(_, _, _)
FloatSumFrom(s, i, acc) ==
  IF i > Len(s) THEN acc ELSE FloatSumFrom(s, i + 1, FloatAdd(acc, s[i]))

FloatSum(s) == FloatSumFrom(s, 1, 0)

\* ------------------------------------------------------------ responses
NoBody ==
  [expenses |-> <<>>, total_income |-> 0, total_expense |-> 0,
   net_balance |-> 0, labels |-> <<>>, values |-> <<>>]

\* The request (client, route, method, id, username, and the identity the
\* session held when it arrived) and its response (status, redirect target,
\* flashed notice, rendered template, template data).
Response(c, route, method, id, username, status, location, flash, template, body) ==
  [client |-> c, route |-> route, method |-> method, id |-> id,
   username |-> username, user |-> session[c], status |-> status,
   location |-> location, flash |-> flash, template |-> template,
   body |-> body]

Redirect(c, route, method, id, location, flash) ==
  Response(c, route, method, id, "", 302, location, flash, "", NoBody)

Render(c, route, method, id, flash, template, body) ==
  Response(c, route, method, id, "", 200, "", flash, template, body)

Abort(c, route, method, id, status) ==
  Response(c, route, method, id, "", status, "", "", "", NoBody)

\* ---------------------------------------------------------------- queries
\* User.query.filter_by(username=u).first()
UsersNamed(u) == {i \in DOMAIN users : users[i].username = u}

\* Mutant: the username column without its unique constraint.
UniqueViolation_off(u) == FALSE

\* The unique constraint on user.username, checked by the store on INSERT.
UniqueViolation(u) == UsersNamed(u) # {}

\* Expense.query.get(id)
ExpensesWithId(id) == {e \in expenses : e.id = id}

\* Expense.query.filter_by(user=current_user)
ExpensesOf(uid) == {e \in expenses : e.user_id = uid}

\* The key the store gives a new expense row: one more than the largest.
RECURSIVE MaxOf(_)
MaxOf(S) ==
  IF S = {} THEN 0
  ELSE LET x == CHOOSE y \in S : TRUE
           m == MaxOf(S \ {x})
       IN  IF x > m THEN x ELSE m

NextExpenseId == MaxOf({e.id : e \in expenses}) + 1

\* The orders in which a query without ORDER BY may return the rows S.
Orderings(S) ==
  {s \in [1..Cardinality(S) -> S] : \A i, j \in DOMAIN s : i # j => s[i] # s[j]}

\* .order_by(Expense.date.desc()): rows of equal date in any order.
DateDescending(S) ==
  {s \in Orderings(S) : \A i, j \in DOMAIN s : i < j => s[i].date >= s[j].date}

\* ------------------------------------------------------------ aggregation
RECURSIVE AmountsOfKind(_, _)
AmountsOfKind(rows, kind) ==
  IF rows = <<>> THEN <<>>
  ELSE LET rest == AmountsOfKind(Tail(rows), kind)
       IN  IF Head(rows).expense_type = kind
           THEN <<Head(rows).amount>> \o rest
           ELSE rest

IndexOf(labels, cat) == CHOOSE i \in DOMAIN labels : labels[i] = cat

\* The defaultdict(float) loop: data is <<keys, values>> in insertion order.
RECURSIVE CategoryData(_, _, _)
CategoryData(rows, i, data) ==
  IF i > Len(rows) THEN data
  ELSE LET e == rows[i]
           labels == data[1]
           values == data[2]
       IN  IF e.expense_type # "expense" THEN CategoryData(rows, i + 1, data)
           ELSE IF \E k \in DOMAIN labels : labels[k] = e.category
           THEN CategoryData(rows, i + 1,
                  <<labels, [values EXCEPT ![IndexOf(labels, e.category)] =
                                      FloatAdd(@, e.amount)]>>)
           ELSE CategoryData(rows, i + 1,
                  <<Append(labels, e.category),
                    Append(values, FloatAdd(0, e.amount))>>)

DashboardData(rows) ==
  LET total_income == FloatSum(AmountsOfKind(rows, "income"))
      total_expense == FloatSum(AmountsOfKind(rows, "expense"))
      category_data == CategoryData(rows, 1, <<<<>>, <<>>>>)
  IN  [expenses |-> rows, total_income |-> total_income,
       total_expense |-> total_expense,
       net_balance |-> FloatSub(total_income, total_expense),
       labels |-> category_data[1], values |-> category_data[2]]

\* ------------------------------------------------------------ the store
Init ==
  /\ users = <<>>
  /\ expenses = {}
  /\ session = [c \in Clients |-> Anonymous]
  /\ pending = [r \in Requests |-> NoRow]
  /\ rawpw = <<>>
  /\ last = [client |-> "c1", route |-> "", method |-> "", id |-> 0,
             username |-> "", user |-> Anonymous, status |-> 0,
             location |-> "", flash |-> "", template |-> "", body |-> NoBody]

\* Mutant: routes without @login_required.
is_authenticated_always(c) == TRUE

\* current_user.is_authenticated, as @login_required tests it.
is_authenticated(c) == session[c] # Anonymous

\* What @login_required answers to an anonymous request.
unauthorized(c, route, method, id) ==
  /\ last' = Redirect(c, route, method, id, "login",
                      "Please log in to access this page.")
  /\ UNCHANGED <<users, expenses, session, pending, rawpw>>

\* db.session.add(user); db.session.commit() and the answer that follows
\* it; the INSERT is refused when it breaks the unique constraint.
commit_user(c, row) ==
  IF UniqueViolation(row.username)
  THEN /\ last' = Response(c, "register", "POST", 0, row.username, 500,
                           "", "", "", NoBody)
       /\ UNCHANGED <<users, rawpw>>
  ELSE /\ users' = Append(users, [id |-> Len(users) + 1,
                                  username |-> row.username,
                                  password |-> row.password])
       /\ rawpw' = Append(rawpw, row.raw)
       /\ last' = Response(c, "register", "POST", 0, row.username, 302,
                           "login", "Account created! You can now log in.",
                           "", NoBody)

\* ---------------------------------------------------------------- routes
index(c) ==
  /\ last' = Redirect(c, "index", "GET", 0,
                      IF is_authenticated(c) THEN "dashboard" ELSE "login", "")
  /\ UNCHANGED <<users, expenses, session, pending, rawpw>>

register_form(c) ==
  /\ last' = Render(c, "register", "GET", 0, "", "register.html", NoBody)
  /\ UNCHANGED <<users, expenses, session, pending, rawpw>>

\* Mutant: registering a taken username replaces that user's password.
register_overwrite(c, username, password, salt) ==
  /\ IF UsersNamed(username) # {}
     THEN /\ users' = [i \in DOMAIN users |->
                         IF users[i].username = username
                         THEN [users[i] EXCEPT !.password =
                                 generate_password_hash(password, salt)]
                         ELSE users[i]]
          /\ last' = Response(c, "register", "POST", 0, username, 302,
                              "register", "Username already exists", "", NoBody)
          /\ UNCHANGED rawpw
     ELSE commit_user(c, [client |-> c, username |-> username,
                          password |-> generate_password_hash(password, salt),
                          raw |-> password])
  /\ UNCHANGED <<expenses, session, pending>>

register(c, username, password, salt) ==
  /\ IF UsersNamed(username) # {}
     THEN /\ last' = Response(c, "register", "POST", 0, username, 302,
                              "register", "Username already exists", "", NoBody)
          /\ UNCHANGED <<users, rawpw>>
     ELSE commit_user(c, [client |-> c, username |-> username,
                          password |-> generate_password_hash(password, salt),
                          raw |-> password])
  /\ UNCHANGED <<expenses, session, pending>>

login_form(c) ==
  /\ last' = Render(c, "login", "GET", 0, "", "login.html", NoBody)
  /\ UNCHANGED <<users, expenses, session, pending, rawpw>>

\* Mutant: login that looks the user up and never verifies the password.
login_without_password(c, username, password) ==
  /\ IF UsersNamed(username) # {}
     THEN /\ session' = [session EXCEPT ![c] =
                           CHOOSE i \in UsersNamed(username) : TRUE]
          /\ last' = Response(c, "login", "POST", 0, username, 302,
                              "dashboard", "", "", NoBody)
     ELSE /\ last' = Response(c, "login", "POST", 0, username, 200, "",
                              "Invalid credentials", "login.html", NoBody)
          /\ UNCHANGED session
  /\ UNCHANGED <<users, expenses, pending, rawpw>>

login(c, username, password) ==
  /\ IF \E i \in UsersNamed(username) :
          check_password_hash(users[i].password, password)
     THEN /\ session' = [session EXCEPT ![c] =
                           CHOOSE i \in UsersNamed(username) : TRUE]
          /\ last' = Response(c, "login", "POST", 0, username, 302,
                              "dashboard", "", "", NoBody)
     ELSE /\ last' = Response(c, "login", "POST", 0, username, 200, "",
                              "Invalid credentials", "login.html", NoBody)
          /\ UNCHANGED session
  /\ UNCHANGED <<users, expenses, pending, rawpw>>

\* Mutant: logout that redirects without calling logout_user().
logout_keeps_session(c) ==
  IF ~is_authenticated(c) THEN unauthorized(c, "logout", "GET", 0)
  ELSE /\ last' = Redirect(c, "logout", "GET", 0, "login", "")
       /\ UNCHANGED <<users, expenses, session, pending, rawpw>>

logout(c) ==
  IF ~is_authenticated(c) THEN unauthorized(c, "logout", "GET", 0)
  ELSE /\ session' = [session EXCEPT ![c] = Anonymous]
       /\ last' = Redirect(c, "logout", "GET", 0, "login", "")
       /\ UNCHANGED <<users, expenses, pending, rawpw>>

dashboard(c) ==
  IF ~is_authenticated(c) THEN unauthorized(c, "dashboard", "GET", 0)
  ELSE /\ \E rows \in Orderings(ExpensesOf(session[c])) :
            last' = Render(c, "dashboard", "GET", 0, "", "dashboard.html",
                           DashboardData(rows))
       /\ UNCHANGED <<users, expenses, session, pending, rawpw>>

add_expense_form(c) ==
  IF ~is_authenticated(c) THEN unauthorized(c, "add", "GET", 0)
  ELSE /\ last' = Render(c, "add", "GET", 0, "", "add_expense.html", NoBody)
       /\ UNCHANGED <<users, expenses, session, pending, rawpw>>

add_expense(c, form) ==
  IF ~is_authenticated(c) THEN unauthorized(c, "add", "POST", 0)
  ELSE IF ParseFloat(form.amount) = ValueError \/ ParseDate(form.date) = ValueError
  THEN /\ last' = Abort(c, "add", "POST", 0, 500)
       /\ UNCHANGED <<users, expenses, session, pending, rawpw>>
  ELSE /\ NextExpenseId <= MaxId
       /\ expenses' = expenses \cup
            {[id |-> NextExpenseId, title |-> form.title,
              amount |-> ParseFloat(form.amount), category |-> form.category,
              expense_type |-> form.expense_type,
              date |-> ParseDate(form.date), user_id |-> session[c]]}
       /\ last' = Redirect(c, "add", "POST", NextExpenseId, "dashboard",
                           FlashAdded(form.expense_type))
       /\ UNCHANGED <<users, session, pending, rawpw>>

view_expenses(c) ==
  IF ~is_authenticated(c) THEN unauthorized(c, "view", "GET", 0)
  ELSE /\ \E rows \in DateDescending(ExpensesOf(session[c])) :
            last' = Render(c, "view", "GET", 0, "", "view_expenses.html",
                           [NoBody EXCEPT !.expenses = rows])
       /\ UNCHANGED <<users, expenses, session, pending, rawpw>>

\* Mutant: delete without the comparison of the row's owner to current_user.
delete_expense_any_owner(c, id) ==
  IF ~is_authenticated(c) THEN unauthorized(c, "delete", "GET", id)
  ELSE IF ExpensesWithId(id) = {}
  THEN /\ last' = Abort(c, "delete", "GET", id, 404)
       /\ UNCHANGED <<users, expenses, session, pending, rawpw>>
  ELSE /\ expenses' = expenses \ ExpensesWithId(id)
       /\ last' = Redirect(c, "delete", "GET", id, "view",
                           "Entry deleted successfully!")
       /\ UNCHANGED <<users, session, pending, rawpw>>

\* Mutant: delete with query.get(id) in place of get_or_404(id), a missing
\* row treated like a row of another user.
delete_expense_missing_ignored(c, id) ==
  IF ~is_authenticated(c) THEN unauthorized(c, "delete", "GET", id)
  ELSE IF \E e \in ExpensesWithId(id) : e.user_id = session[c]
  THEN /\ expenses' = expenses \ ExpensesWithId(id)
       /\ last' = Redirect(c, "delete", "GET", id, "view",
                           "Entry deleted successfully!")
       /\ UNCHANGED <<users, session, pending, rawpw>>
  ELSE /\ last' = Redirect(c, "delete", "GET", id, "view", "")
       /\ UNCHANGED <<users, expenses, session, pending, rawpw>>

delete_expense(c, id) ==
  IF ~is_authenticated(c) THEN unauthorized(c, "delete", "GET", id)
  ELSE IF ExpensesWithId(id) = {}
  THEN /\ last' = Abort(c, "delete", "GET", id, 404)
       /\ UNCHANGED <<users, expenses, session, pending, rawpw>>
  ELSE LET expense == CHOOSE e \in ExpensesWithId(id) : TRUE
       IN  IF expense.user_id = session[c]
           THEN /\ expenses' = expenses \ {expense}
                /\ last' = Redirect(c, "delete", "GET", id, "view",
                                    "Entry deleted successfully!")
                /\ UNCHANGED <<users, session, pending, rawpw>>
           ELSE /\ last' = Redirect(c, "delete", "GET", id, "view", "")
                /\ UNCHANGED <<users, expenses, session, pending, rawpw>>

\* Mutant: an edit whose update is applied to every row of the current user.
edit_expense_every_row(c, id, method, form) ==
  IF ~is_authenticated(c) THEN unauthorized(c, "edit", method, id)
  ELSE IF ExpensesWithId(id) = {}
  THEN /\ last' = Abort(c, "edit", method, id, 404)
       /\ UNCHANGED <<users, expenses, session, pending, rawpw>>
  ELSE LET expense == CHOOSE e \in ExpensesWithId(id) : TRUE
       IN  IF expense.user_id # session[c]
           THEN /\ last' = Redirect(c, "edit", method, id, "dashboard",
                                    "Unauthorized access")
                /\ UNCHANGED <<users, expenses, session, pending, rawpw>>
           ELSE IF method = "GET"
           THEN /\ last' = Render(c, "edit", method, id, "",
                                  "edit_expense.html",
                                  [NoBody EXCEPT !.expenses = <<expense>>])
                /\ UNCHANGED <<users, expenses, session, pending, rawpw>>
           ELSE IF ParseFloat(form.amount) = ValueError
                   \/ ParseDate(form.date) = ValueError
           THEN /\ last' = Abort(c, "edit", method, id, 500)
                /\ UNCHANGED <<users, expenses, session, pending, rawpw>>
           ELSE /\ expenses' =
                     {IF e.user_id = session[c]
                      THEN [e EXCEPT
                              !.title = form.title,
                              !.amount = ParseFloat(form.amount),
                              !.category = form.category,
                              !.expense_type = form.expense_type,
                              !.date = ParseDate(form.date)]
                      ELSE e : e \in expenses}
                /\ last' = Redirect(c, "edit", method, id, "view",
                                    "Entry updated successfully!")
                /\ UNCHANGED <<users, session, pending, rawpw>>

\* Both methods of /edit/<id>: form is the submitted form of a POST.
edit_expense(c, id, method, form) ==
  IF ~is_authenticated(c) THEN unauthorized(c, "edit", method, id)
  ELSE IF ExpensesWithId(id) = {}
  THEN /\ last' = Abort(c, "edit", method, id, 404)
       /\ UNCHANGED <<users, expenses, session, pending, rawpw>>
  ELSE LET expense == CHOOSE e \in ExpensesWithId(id) : TRUE
       IN  IF expense.user_id # session[c]
           THEN /\ last' = Redirect(c, "edit", method, id, "dashboard",
                                    "Unauthorized access")
                /\ UNCHANGED <<users, expenses, session, pending, rawpw>>
           ELSE IF method = "GET"
           THEN /\ last' = Render(c, "edit", method, id, "",
                                  "edit_expense.html",
                                  [NoBody EXCEPT !.expenses = <<expense>>])
                /\ UNCHANGED <<users, expenses, session, pending, rawpw>>
           ELSE IF ParseFloat(form.amount) = ValueError
                   \/ ParseDate(form.date) = ValueError
           THEN /\ last' = Abort(c, "edit", method, id, 500)
                /\ UNCHANGED <<users, expenses, session, pending, rawpw>>
           ELSE /\ expenses' = (expenses \ {expense}) \cup
                     {[expense EXCEPT
                         !.title = form.title,
                         !.amount = ParseFloat(form.amount),
                         !.category = form.category,
                         !.expense_type = form.expense_type,
                         !.date = ParseDate(form.date)]}
                /\ last' = Redirect(c, "edit", method, id, "view",
                                    "Entry updated successfully!")
                /\ UNCHANGED <<users, session, pending, rawpw>>

Next ==
  \E c \in Clients :
    \/ index(c)
    \/ register_form(c)
    \/ \E u \in Usernames, p \in Passwords, s \in Salts : register(c, u, p, s)
    \/ login_form(c)
    \/ \E u \in Usernames, p \in Passwords : login(c, u, p)
    \/ logout(c)
    \/ dashboard(c)
    \/ add_expense_form(c)
    \/ \E f \in Forms : add_expense(c, f)
    \/ view_expenses(c)
    \/ \E id \in Ids : delete_expense(c, id)
    \/ \E id \in Ids : edit_expense(c, id, "GET", NoForm)
    \/ \E id \in Ids, f \in Forms : edit_expense(c, id, "POST", f)

Spec == Init /\ [][Next]_vars

\* ------------------------------------------- two interleaved registrations
\* register up to its existence query (lines 49-54): the request either is
\* answered "Username already exists" or holds a User object to insert.
register_begin(r, c, username, password, salt) ==
  /\ pending[r] = NoRow
  /\ IF UsersNamed(username) # {}
     THEN /\ last' = Response(c, "register", "POST", 0, username, 302,
                              "register", "Username already exists", "", NoBody)
          /\ UNCHANGED pending
     ELSE /\ pending' = [pending EXCEPT ![r] =
                           [client |-> c, username |-> username,
                            password |-> generate_password_hash(password, salt),
                            raw |-> password]]
          /\ UNCHANGED last
  /\ UNCHANGED <<users, expenses, session, rawpw>>

\* register from its insert on (lines 56-60).
register_commit(r) ==
  /\ pending[r] # NoRow
  /\ commit_user(pending[r].client, pending[r])
  /\ pending' = [pending EXCEPT ![r] = NoRow]
  /\ UNCHANGED <<expenses, session>>

NextConc ==
  \E r \in Requests :
    \/ \E c \in Clients, u \in Usernames, p \in Passwords, s \in Salts :
         register_begin(r, c, u, p, s)
    \/ register_commit(r)

SpecConc == Init /\ [][NextConc]_vars

\* ------------------------------------------------ the dashboard on its own
AggRows == AggAmounts \X AggCategories \X AggKinds

\* The expense tables of one user with up to MaxAggEntries rows.
AggTables ==
  UNION {{{[id |-> i, title |-> "t", amount |-> f[i][1],
            category |-> f[i][2], expense_type |-> f[i][3],
            date |-> 20240101, user_id |-> 1] : i \in 1..n}
          : f \in [1..n -> AggRows]} : n \in 0..MaxAggEntries}

InitAgg ==
  /\ users = <<[id |-> 1, username |-> "alice",
                password |-> generate_password_hash("pw1", "s1")]>>
  /\ rawpw = <<"pw1">>
  /\ expenses \in AggTables
  /\ session = [c \in Clients |-> IF c = "c1" THEN 1 ELSE Anonymous]
  /\ pending = [r \in Requests |-> NoRow]
  /\ last = [client |-> "c1", route |-> "", method |-> "", id |-> 0,
             username |-> "", user |-> Anonymous, status |-> 0,
             location |-> "", flash |-> "", template |-> "", body |-> NoBody]

NextAgg == \E c \in Clients : dashboard(c)

SpecAgg == InitAgg /\ [][NextAgg]_vars

\* ================================================================ claims
Protected == {"logout", "dashboard", "add", "view", "edit", "delete"}

RowsShown(r) == {r.body.expenses[i] : i \in DOMAIN r.body.expenses}

\* C1: a request made in a session authenticated as user A leaves every
\* expense row owned by another user present and unchanged, whatever id it
\* names, and the rows dashboard, view and the edit form show are stored rows
\* owned by A.
OwnerOnlyAccess ==
  [][ /\ \A e \in expenses :
           e.user_id # session[last'.client] => e \in expenses'
      /\ \A e \in RowsShown(last') :
           e \in expenses /\ e.user_id = session[last'.client]
    ]_vars

\* C1 witness: an authenticated delete or edit named a row of another user,
\* and the row is still stored.
OtherUsersRowTargeted ==
  /\ last.route \in {"delete", "edit"}
  /\ last.user # Anonymous
  /\ \E e \in expenses : e.id = last.id /\ e.user_id # last.user

\* C2: a register request for a username that is already registered is
\* answered with the "Username already exists" notice and leaves the user
\* table as it was: the original password of that user still verifies and no
\* other password does.
DuplicateRegisterRejected ==
  [][ \A c \in Clients, u \in Usernames, p \in Passwords, s \in Salts :
        (/\ last'.route = "register" /\ last'.username = u
         /\ UsersNamed(u) # {}
         /\ register(c, u, p, s)) =>
          /\ last'.flash = "Username already exists"
          /\ last'.location = "register"
          /\ users' = users
          /\ \A i \in UsersNamed(u), q \in Passwords :
               check_password_hash(users'[i].password, q) <=> q = rawpw[i]
    ]_vars

\* C2 witness: a register request was refused for a registered username.
DuplicateRegisterSeen ==
  /\ last.route = "register"
  /\ last.flash = "Username already exists"
  /\ UsersNamed(last.username) # {}

\* What a login request that failed shows, whatever made it fail.
InvalidCredentialsOutcome ==
  [status |-> 200, location |-> "", flash |-> "Invalid credentials",
   template |-> "login.html", body |-> NoBody]

Outcome(r) ==
  [status |-> r.status, location |-> r.location, flash |-> r.flash,
   template |-> r.template, body |-> r.body]

\* C3: a login request makes the session that of the named user exactly when
\* a user of that name exists and the password is the one it registered
\* with; every other login request, unknown name or wrong password alike, gets
\* the same "Invalid credentials" answer and leaves the session as it was.
LoginIffCredentials ==
  [][ \A c \in Clients, u \in Usernames, p \in Passwords :
        (last'.route = "login" /\ last'.username = u /\ login(c, u, p)) =>
          IF \E i \in UsersNamed(u) : rawpw[i] = p
          THEN /\ session'[c] \in UsersNamed(u)
               /\ last'.status = 302 /\ last'.location = "dashboard"
          ELSE /\ session' = session
               /\ Outcome(last') = InvalidCredentialsOutcome
    ]_vars

\* C3 witness: a login for a registered username failed (wrong password).
WrongPasswordSeen ==
  /\ last.route = "login"
  /\ last.flash = "Invalid credentials"
  /\ UsersNamed(last.username) # {}

\* C4: a request to a protected route from an anonymous session is answered
\* by a redirect to login and changes no user, no expense row and no session.
AnonymousRedirected ==
  [][ (last'.route \in Protected /\ session[last'.client] = Anonymous) =>
        /\ last'.status = 302 /\ last'.location = "login"
        /\ UNCHANGED <<users, expenses, session>>
    ]_vars

\* C4 witness: an anonymous delete named a stored row and was redirected.
AnonymousDeleteSeen ==
  /\ last.route = "delete"
  /\ last.user = Anonymous
  /\ last.location = "login"
  /\ \E e \in expenses : e.id = last.id

\* The expense rows of kind "expense" among those a dashboard was given.
ExpenseRowsShown(r) == {e \in RowsShown(r) : e.expense_type = "expense"}

\* C5: the dashboard's labels are exactly the categories of the shown rows of
\* kind "expense", none twice, and its values add up to total_expense.
BreakdownSumsToTotal ==
  (last.route = "dashboard" /\ last.status = 200) =>
    /\ {last.body.labels[i] : i \in DOMAIN last.body.labels}
         = {e.category : e \in ExpenseRowsShown(last)}
    /\ Len(last.body.labels) = Cardinality({e.category : e \in ExpenseRowsShown(last)})
    /\ Len(last.body.values) = Len(last.body.labels)
    /\ FloatSum(last.body.values) = last.body.total_expense

\* C6: an authenticated delete or edit that names an id no stored row has is
\* answered 404 and changes nothing; a delete that succeeded leaves no row of
\* that id, so repeating it is answered 404.
MissingIdNotFound ==
  [][ /\ (/\ last'.route \in {"delete", "edit"}
          /\ session[last'.client] # Anonymous
          /\ ExpensesWithId(last'.id) = {}) =>
            /\ last'.status = 404
            /\ UNCHANGED <<users, expenses, session>>
      /\ (last'.route = "delete" /\ last'.flash = "Entry deleted successfully!") =>
            /\ ExpensesWithId(last'.id) # {}
            /\ {e \in expenses' : e.id = last'.id} = {}
    ]_vars

\* C6 witness: an authenticated delete was answered 404.
DeleteNotFoundSeen ==
  /\ last.route = "delete"
  /\ last.user # Anonymous
  /\ last.status = 404

\* C7 as claimed: a session leaves Anonymous only by a successful login, for
\* the user named, and leaves Authenticated only by logout, to Anonymous.
SessionLeavesOnlyByLogout ==
  [][ \A c \in Clients :
        session'[c] # session[c] =>
          \/ /\ session[c] = Anonymous
             /\ last'.client = c /\ last'.route = "login"
             /\ session'[c] \in UsersNamed(last'.username)
          \/ /\ session[c] # Anonymous
             /\ last'.client = c /\ last'.route = "logout"
             /\ session'[c] = Anonymous
    ]_vars

\* C7 amended: the identity of a session changes only by a successful login,
\* from Anonymous or from another user, to the user named, or by a logout, to
\* Anonymous; a logout of an authenticated session always ends Anonymous; no
\* other request changes it.
SessionChangesByLoginOrLogout ==
  [][ \A c \in Clients :
        /\ session'[c] # session[c] =>
             \/ /\ last'.client = c /\ last'.route = "login"
                /\ last'.method = "POST" /\ last'.status = 302
                /\ session'[c] \in UsersNamed(last'.username)
             \/ /\ session[c] # Anonymous
                /\ last'.client = c /\ last'.route = "logout"
                /\ session'[c] = Anonymous
        /\ (last'.client = c /\ last'.route = "logout") =>
             session'[c] = Anonymous
    ]_vars

\* C7 witness: a login succeeded in a session that was another user's.
LoginOverSessionSeen ==
  /\ last.route = "login"
  /\ last.status = 302
  /\ last.user # Anonymous
  /\ session[last.client] # last.user

\* C8: every stored expense row has kind "income" or "expense".
KindIsIncomeOrExpense ==
  \A e \in expenses : e.expense_type \in {"income", "expense"}

\* C9: every stored row has its own id and an owner that is a registered
\* user; a new row is owned by the user of the session that added it; no
\* request changes the owner of a row; a successful edit keeps the ids and
\* leaves every row but the one it names as it was.
OwnerFixedAtCreation ==
  [][ /\ \A e1, e2 \in expenses' : e1.id = e2.id => e1 = e2
      /\ \A e \in expenses' : e.user_id \in DOMAIN users'
      /\ \A e \in expenses' :
           ExpensesWithId(e.id) = {} =>
             /\ last'.route = "add"
             /\ e.user_id = session[last'.client]
      /\ \A e \in expenses, f \in expenses' :
           e.id = f.id => e.user_id = f.user_id
      /\ last'.route = "edit" =>
           /\ {e.id : e \in expenses'} = {e.id : e \in expenses}
           /\ \A e \in expenses : e.id # last'.id => e \in expenses'
    ]_vars

\* C9 witness: an edit changed a row while another row was stored.
EditBesideOtherRowSeen ==
  /\ last.route = "edit"
  /\ last.flash = "Entry updated successfully!"
  /\ \E e \in expenses : e.id # last.id

\* C10: no two rows of the user table have the same username.
UsernamesUnique ==
  \A i, j \in DOMAIN users : users[i].username = users[j].username => i = j

\* C10 witness: two registrations of one name both passed the existence
\* query, and the store refused the second insert.
SecondInsertRefused ==
  /\ last.route = "register"
  /\ last.status = 500
  /\ UsersNamed(last.username) # {}

====
